---- MODULE Spec2Model ----
(***************************************************************************)
(* Hybrid RAG search engine: the Streamlit session (app.py), the context   *)
(* gatherer and answer synthesizer (logic.py) and the vector engine and    *)
(* text cleaner (ingestion.py).                                            *)
(*                                                                         *)
(* Texts (chunk contents, queries) are small integers; an embedding maps a *)
(* text to a point on a line and similarity is the distance between two    *)
(* points.  Characters are the strings "a", " ", "n" (newline), "nbsp" (the *)
(* no-break space) and "x" (a non-ASCII letter).                           *)
(***************************************************************************)
EXTENDS Integers, Sequences, FiniteSets, TLC

VARIABLES
    disk,                \* the folder "faiss_index": None or the persisted index
    sessionStore,        \* st.session_state.vector_engine.vector_store (app.py)
    logicStore,          \* logic.vector_engine.vector_store (module-level engine)
    web_search_enabled,  \* st.session_state.web_search_enabled
    uploaded_files,      \* the files held by the st.file_uploader widget
    indexed_filenames,   \* st.session_state.indexed_filenames
    index_status,        \* what the last "Index Documents" click showed
    messages,            \* st.session_state.messages (the roles)
    last,                \* the trace of the last chat-input cycle
    text, once, twice,   \* clean_text: input, one application, two applications
    applied,             \* clean_text: how many times it has been applied
    rt                   \* round trip: chunks, query, k, both search results

vars == <<disk, sessionStore, logicStore, web_search_enabled, uploaded_files,
          indexed_filenames, index_status, messages, last, text, once, twice,
          applied, rt>>

engineVars == <<disk, sessionStore, logicStore, web_search_enabled, uploaded_files,
                indexed_filenames, index_status, messages, last>>

cleanVars == <<text, once, twice, applied>>

sessionVars == <<web_search_enabled, uploaded_files, indexed_filenames,
                 index_status, messages, last>>

----------------------------------------------------------------------------
(* Bounds *)

MaxMessages == 2      \* a query cycle starts only below this history length
MaxLen == 4           \* length of a clean_text input
MaxText == 3          \* round trip: chunk texts and queries are 1..MaxText
MaxChunks == 3        \* round trip: length of the chunk list
MaxK == 3             \* round trip: k is 1..MaxK

(* Program constants *)

DocK == 5             \* gather_context: semantic_search(query, k=5)
WebK == 3             \* gather_context: execute_web_search(query, k=3)

----------------------------------------------------------------------------
(* Values *)

None == [none |-> TRUE]

\* the queries typed into the chat input
Queries == {1, 3}

Routes == {"internal", "web", "hybrid"}

MODEL_NAME == "all-MiniLM-L6-v2"

Min(a, b) == IF a <= b THEN a ELSE b

Abs(a) == IF a < 0 THEN 0 - a ELSE a

\* HuggingFaceEmbeddings(model_name): a fixed function of the text for a model
Embed(model_name, t) ==
    IF model_name = MODEL_NAME THEN 2 * t ELSE (t * t) % 5

\* the uploader accepts pdf and txt files; a file is its name and the
\* documents its loader extracts (a PDF without pages extracts none)

NotesTxt == [name |-> "notes.txt", docs |-> <<3, 1>>]

BlankPdf == [name |-> "blank.pdf", docs |-> <<>>]

\* the selections the user makes in the uploader
Uploads == { <<>>, <<NotesTxt>>, <<BlankPdf>> }

Suffix(name) ==
    CASE name = "blank.pdf" -> "pdf"
      [] name = "notes.txt" -> "txt"
      [] OTHER -> "other"

----------------------------------------------------------------------------
(* ingestion.py: clean_text *)

\* the characters: a printable ASCII letter, the space, the newline, the
\* no-break space (non-ASCII, whitespace for \s) and a non-ASCII letter
Chars == {"a", " ", "n", "nbsp", "x"}

Whitespace == {" ", "n", "nbsp"}      \* \s on a str pattern

NonAscii == {"nbsp", "x"}             \* [^\x00-\x7F]

\* re.sub(class+, ' ', s): every maximal run of characters of the class
\* becomes one space
RECURSIVE sub_runs(_, _)
sub_runs(s, class) ==
    IF s = <<>> THEN <<>>
    ELSE IF Head(s) \in class
         THEN IF Len(s) > 1 /\ s[2] \in class
              THEN sub_runs(Tail(s), class)
              ELSE <<" ">> \o sub_runs(Tail(s), class)
         ELSE <<Head(s)>> \o sub_runs(Tail(s), class)

\* str.strip()
RECURSIVE lstrip(_)
lstrip(s) ==
    IF s # <<>> /\ Head(s) \in Whitespace THEN lstrip(Tail(s)) ELSE s

RECURSIVE rstrip(_)
rstrip(s) ==
    IF s # <<>> /\ s[Len(s)] \in Whitespace
    THEN rstrip(SubSeq(s, 1, Len(s) - 1)) ELSE s

strip(s) == rstrip(lstrip(s))

clean_text(s) ==
    strip(sub_runs(sub_runs(s, Whitespace), NonAscii))

----------------------------------------------------------------------------
(* ingestion.py: DocumentIngestor *)

RECURSIVE process_files(_)
process_files(files) ==
    IF files = <<>> THEN <<>>
    ELSE LET f == Head(files)
             docs == IF Suffix(f.name) \in {"pdf", "txt"} THEN f.docs ELSE <<>>
         IN  docs \o process_files(Tail(files))

----------------------------------------------------------------------------
(* ingestion.py: VectorEngine and the FAISS store it drives *)

\* FAISS.from_documents(chunks, embeddings): one vector per chunk, in order
from_documents(chunks, embeddings) ==
    [vecs |-> [i \in 1..Len(chunks) |-> Embed(embeddings, chunks[i])],
     docs |-> chunks,
     emb  |-> embeddings]

\* vector_store.save_local(save_path): the vectors (index.faiss) and the
\* payload (index.pkl); the embedding function is not written
save_local(store) ==
    [faiss |-> store.vecs, pkl |-> store.docs]

\* FAISS.load_local(save_path, embeddings, ...): raises when nothing is there
load_local(persisted, embeddings) ==
    IF persisted = None
    THEN [exc |-> TRUE, val |-> None]
    ELSE [exc |-> FALSE,
          val |-> [vecs |-> persisted.faiss, docs |-> persisted.pkl, emb |-> embeddings]]

\* how many stored vectors come before vector i for the query point qv
Rank(vecs, qv, i) ==
    Cardinality({ j \in DOMAIN vecs :
        \/ Abs(vecs[j] - qv) < Abs(vecs[i] - qv)
        \/ Abs(vecs[j] - qv) = Abs(vecs[i] - qv) /\ j < i })

\* vector_store.similarity_search(query, k): the k nearest, nearest first;
\* fails says whether the call raises (embedding or index error)
similarity_search(store, query, k, fails) ==
    LET qv == Embed(store.emb, query)
        n  == Min(k, Len(store.vecs))
    IN  IF fails
        THEN [exc |-> TRUE, val |-> <<>>]
        ELSE [exc |-> FALSE,
              val |-> [p \in 1..n |->
                        store.docs[CHOOSE i \in DOMAIN store.vecs :
                                      Rank(store.vecs, qv, i) = p - 1]]]

Call(fn, k) == [fn |-> fn, k |-> k]

\* VectorEngine.index_documents on an engine holding `store`
index_documents(store, d, chunks) ==
    IF chunks = <<>>
    THEN [store |-> store, disk |-> d, ret |-> None, exc |-> "none"]
    ELSE LET built == from_documents(chunks, MODEL_NAME)
         IN  [store |-> built, disk |-> save_local(built), ret |-> built, exc |-> "none"]

\* load_faiss_index without its except clause: a failed load propagates
load_faiss_index_uncaught(store, d) ==
    LET try == load_local(d, MODEL_NAME)
    IN  IF try.exc
        THEN [ok |-> FALSE, store |-> store, exc |-> TRUE]
        ELSE [ok |-> TRUE, store |-> try.val, exc |-> FALSE]

\* load_faiss_index on an engine constructed with another embedding model
load_faiss_index_other_model(store, d) ==
    LET try == load_local(d, "paraphrase-MiniLM-L3-v2")
    IN  IF try.exc
        THEN [ok |-> FALSE, store |-> store, exc |-> FALSE]
        ELSE [ok |-> TRUE, store |-> try.val, exc |-> FALSE]

\* VectorEngine.load_faiss_index on an engine holding `store`: the except
\* clause turns a failed load into False and leaves the store as it was
load_faiss_index(store, d) ==
    LET try == load_local(d, MODEL_NAME)
    IN  IF try.exc
        THEN [ok |-> FALSE, store |-> store, exc |-> FALSE]
        ELSE [ok |-> TRUE, store |-> try.val, exc |-> FALSE]

\* VectorEngine.semantic_search on an engine holding `store`.  `calls` lists
\* the calls made, in order, `searched` is the store the similarity search
\* ran on (None when none ran), `exc` whether an exception left the method.
semantic_search(store, d, query, k, simFails) ==
    LET loaded == load_faiss_index(store, d)
        pre == IF store = None
               THEN <<Call("semantic_search", k), Call("load_faiss_index", 0)>>
               ELSE <<Call("semantic_search", k)>>
    IN  IF store = None /\ ~loaded.ok
        THEN [results |-> <<>>, store |-> loaded.store, searched |-> None,
              exc |-> loaded.exc, calls |-> pre]
        ELSE LET cur == IF store = None THEN loaded.store ELSE store
                 try == similarity_search(cur, query, k, simFails)
             IN  [results  |-> IF try.exc THEN <<>> ELSE try.val,
                  store    |-> cur,
                  searched |-> cur,
                  exc      |-> FALSE,
                  calls    |-> pre \o <<Call("similarity_search", k)>>]

----------------------------------------------------------------------------
(* logic.py *)

\* what the structured classification call can do: return a route or raise
RouterOutcomes ==
    {[exc |-> TRUE, val |-> "internal"]} \cup {[exc |-> FALSE, val |-> r] : r \in Routes}

\* what the web search provider can do: return ranked hits or raise
ProviderOutcomes ==
    {[exc |-> TRUE, val |-> <<>>]}
        \cup {[exc |-> FALSE, val |-> hits] : hits \in {<<>>, <<1, 2>>}}

\* classify_query
classify_query(query, router) == router

\* execute_web_search: TavilySearchResults(max_results=k).invoke(query)
execute_web_search(query, k, provider) ==
    IF provider.exc
    THEN [exc |-> TRUE, val |-> <<>>]
    ELSE [exc |-> FALSE, val |-> SubSeq(provider.val, 1, Min(k, Len(provider.val)))]

\* gather_context step 2: the gate on the classified route
effective_route_unforced(web_enabled, candidate) == candidate

effective_route(web_enabled, candidate) ==
    IF ~web_enabled THEN "internal" ELSE candidate

\* gather_context step 3: the routes that run the document search
runs_doc_search_internal_only(route) == route = "internal"

runs_doc_search(route) == route \in {"internal", "hybrid"}

\* gather_context step 4: when the web search runs
runs_web_search(web_enabled, route) ==
    web_enabled /\ route \in {"web", "hybrid"}

\* gather_context with both gates left out: the classified route is used as
\* it is and the web search runs on every web or hybrid route
gather_context_ungated(query, web_enabled, store, d, router, provider, simFails) ==
    LET cls   == classify_query(query, router)
        route == cls.val
        useDocs == runs_doc_search(route)
        useWeb  == route \in {"web", "hybrid"}
        doc   == semantic_search(store, d, query, DocK, simFails)
        web   == execute_web_search(query, WebK, provider)
    IN  IF cls.exc
        THEN [raised |-> "classify_query", context |-> None, store |-> store,
              calls |-> <<Call("classify_query", 0)>>,
              docs |-> <<>>, searched |-> None]
        ELSE [raised   |-> IF useWeb /\ web.exc THEN "execute_web_search" ELSE "none",
              context  |-> IF useWeb /\ web.exc THEN None
                           ELSE [docs |-> IF useDocs THEN doc.results ELSE <<>>,
                                 web |-> IF useWeb THEN web.val ELSE <<>>,
                                 route |-> route],
              store    |-> IF useDocs THEN doc.store ELSE store,
              calls    |-> <<Call("classify_query", 0)>>
                              \o (IF useDocs THEN doc.calls ELSE <<>>)
                              \o (IF useWeb THEN <<Call("execute_web_search", WebK)>>
                                            ELSE <<>>),
              docs     |-> IF useDocs THEN doc.results ELSE <<>>,
              searched |-> IF useDocs THEN doc.searched ELSE None]

\* gather_context, run against the module-level engine holding `store`.
\* `raised` names the call whose exception left gather_context ("none" when
\* it returned), `context` is the returned bundle (None when it raised),
\* `calls` the calls made in order, `docs` what the document search gave,
\* `searched` the store it ran on.
gather_context(query, web_enabled, store, d, router, provider, simFails) ==
    LET cls   == classify_query(query, router)
        route == effective_route(web_enabled, cls.val)
        useDocs == runs_doc_search(route)
        useWeb  == runs_web_search(web_enabled, route)
        doc   == semantic_search(store, d, query, DocK, simFails)
        web   == execute_web_search(query, WebK, provider)
        docRaised == useDocs /\ doc.exc
        webRaised == ~docRaised /\ useWeb /\ web.exc
    IN  IF cls.exc
        THEN [raised |-> "classify_query", context |-> None, store |-> store,
              calls |-> <<Call("classify_query", 0)>>,
              docs |-> <<>>, searched |-> None]
        ELSE [raised   |-> IF docRaised THEN "semantic_search"
                           ELSE IF webRaised THEN "execute_web_search"
                           ELSE "none",
              context  |-> IF docRaised \/ webRaised THEN None
                           ELSE [docs |-> IF useDocs THEN doc.results ELSE <<>>,
                                 web |-> IF useWeb THEN web.val ELSE <<>>,
                                 route |-> route],
              store    |-> IF useDocs THEN doc.store ELSE store,
              calls    |-> <<Call("classify_query", 0)>>
                              \o (IF useDocs THEN doc.calls ELSE <<>>)
                              \o (IF useWeb /\ ~docRaised
                                  THEN <<Call("execute_web_search", WebK)>> ELSE <<>>),
              docs     |-> IF useDocs /\ ~docRaised THEN doc.results ELSE <<>>,
              searched |-> IF useDocs THEN doc.searched ELSE None]

\* generate_hybrid_answer: one generation request; genFails says whether the
\* model call raises
generate_hybrid_answer(query, context, genFails) ==
    IF genFails
    THEN [exc |-> TRUE, val |-> "none"]
    ELSE [exc |-> FALSE, val |-> "answer"]

\* the uncaught exception Streamlit renders in place of the answer
Traceback == "exception"

----------------------------------------------------------------------------
(* app.py: the Streamlit session *)

NoRoundTrip ==
    [pc |-> "idle", chunks |-> <<>>, query |-> 0, k |-> 0,
     original |-> <<>>, loaded |-> <<>>]

NoCycle ==
    [query |-> 0, web_enabled |-> FALSE, candidate |-> "none", failed |-> {},
     calls |-> <<>>, raised |-> "none", context |-> None,
     docs |-> <<>>, searched |-> None, shown |-> "none"]

\* an index a previous run of the application left in "faiss_index"
OldIndex == save_local(from_documents(<<2>>, MODEL_NAME))

Init ==
    /\ disk \in {None, OldIndex}
    /\ sessionStore = load_faiss_index(None, disk).store
    /\ logicStore = None
    /\ web_search_enabled = FALSE
    /\ uploaded_files = <<>>
    /\ indexed_filenames = {}
    /\ index_status = "idle"
    /\ messages = <<>>
    /\ last = NoCycle
    /\ text = <<>> /\ once = <<>> /\ twice = <<>> /\ applied = 0
    /\ rt = NoRoundTrip

\* st.file_uploader: the user changes the selection of files
Upload ==
    /\ \E files \in Uploads : files # uploaded_files /\ uploaded_files' = files
    /\ UNCHANGED <<disk, sessionStore, logicStore, web_search_enabled,
                   indexed_filenames, index_status, messages, last>>
    /\ UNCHANGED <<cleanVars, rt>>

\* st.toggle("Enable Web Search")
Toggle ==
    /\ web_search_enabled' = ~web_search_enabled
    /\ UNCHANGED <<disk, sessionStore, logicStore, uploaded_files,
                   indexed_filenames, index_status, messages, last>>
    /\ UNCHANGED <<cleanVars, rt>>

\* the "Index Documents" button
IndexDocuments ==
    /\ IF uploaded_files # <<>>
       THEN LET chunks == process_files(uploaded_files)
                r == index_documents(sessionStore, disk, chunks)
            IN  /\ sessionStore' = r.store
                /\ disk' = r.disk
                /\ indexed_filenames' = indexed_filenames
                      \cup {uploaded_files[i].name : i \in DOMAIN uploaded_files}
                /\ index_status' = IF r.exc = "none" THEN "Index Updated!" ELSE r.exc
       ELSE /\ index_status' = "Please upload files first."
            /\ UNCHANGED <<sessionStore, disk, indexed_filenames>>
    /\ UNCHANGED <<logicStore, web_search_enabled, uploaded_files, messages, last>>
    /\ UNCHANGED <<cleanVars, rt>>

\* the outcomes of the external calls a query cycle makes; an outcome is an
\* input of the cycle only when the call is made
NoRaise == [exc |-> FALSE, val |-> <<>>]

ProviderInputs(web_enabled, router) ==
    IF ~router.exc /\ web_enabled /\ router.val \in {"web", "hybrid"}
    THEN ProviderOutcomes ELSE {NoRaise}

SimInputs(web_enabled, router, store, d) ==
    IF /\ ~router.exc
       /\ (~web_enabled \/ router.val \in {"internal", "hybrid"})
       /\ (store # None \/ d # None)
    THEN BOOLEAN ELSE {FALSE}

\* the external calls of a cycle that raised
Failed(router, provider, simFails, genFails) ==
    { f \in {"classify_query", "execute_web_search", "similarity_search",
             "generate_hybrid_answer"} :
        \/ f = "classify_query" /\ router.exc
        \/ f = "execute_web_search" /\ provider.exc
        \/ f = "similarity_search" /\ simFails
        \/ f = "generate_hybrid_answer" /\ genFails }

GenInputs(g) == IF g.raised = "none" THEN BOOLEAN ELSE {FALSE}

\* st.chat_input: one query cycle, gather then synthesize.  An exception that
\* leaves gather_context or generate_hybrid_answer ends the script run: the
\* page shows the exception and no assistant message is saved.
ChatInput ==
    /\ Len(messages) < MaxMessages
    /\ \E prompt \in Queries, router \in RouterOutcomes :
       \E provider \in ProviderInputs(web_search_enabled, router),
          simFails \in SimInputs(web_search_enabled, router, logicStore, disk) :
        LET is_web_on == web_search_enabled
            g == gather_context(prompt, is_web_on, logicStore, disk,
                                router, provider, simFails)
        IN  \E genFails \in GenInputs(g) :
            LET a == generate_hybrid_answer(prompt, g.context, genFails)
                answered == g.raised = "none" /\ ~a.exc
            IN  /\ logicStore' = g.store
                /\ messages' = IF answered THEN messages \o <<"user", "assistant">>
                                           ELSE Append(messages, "user")
                /\ last' = [query |-> prompt, web_enabled |-> is_web_on,
                            candidate |-> IF router.exc THEN "none" ELSE router.val,
                            failed |-> Failed(router, provider, simFails, genFails),
                            calls |-> IF g.raised = "none"
                                      THEN g.calls \o <<Call("generate_hybrid_answer", 0)>>
                                      ELSE g.calls,
                            raised |-> IF g.raised # "none" THEN g.raised
                                       ELSE IF a.exc THEN "generate_hybrid_answer"
                                       ELSE "none",
                            context |-> g.context, docs |-> g.docs,
                            searched |-> g.searched,
                            shown |-> IF answered THEN a.val ELSE Traceback]
    /\ UNCHANGED <<disk, sessionStore, web_search_enabled, uploaded_files,
                   indexed_filenames, index_status>>
    /\ UNCHANGED <<cleanVars, rt>>

Next == Upload \/ Toggle \/ IndexDocuments \/ ChatInput

Spec == Init /\ [][Next]_vars

----------------------------------------------------------------------------
(* clean_text applied to a text, then to its own result *)

Strings == UNION { [1..n -> Chars] : n \in 0..MaxLen }

InitClean ==
    /\ text \in Strings
    /\ once = <<>> /\ twice = <<>> /\ applied = 0
    /\ disk = None /\ sessionStore = None /\ logicStore = None
    /\ web_search_enabled = FALSE
    /\ uploaded_files = <<>>
    /\ indexed_filenames = {}
    /\ index_status = "idle"
    /\ messages = <<>>
    /\ last = NoCycle
    /\ rt = NoRoundTrip

Clean ==
    /\ applied < 2
    /\ applied' = applied + 1
    /\ IF applied = 0
       THEN once' = clean_text(text) /\ twice' = twice
       ELSE twice' = clean_text(once) /\ once' = once
    /\ UNCHANGED <<text, engineVars, rt>>

NextClean == Clean

SpecClean == InitClean /\ [][NextClean]_vars

----------------------------------------------------------------------------
(* The round trip: one engine builds and persists, a fresh engine loads,   *)
(* both answer the same search.  sessionStore is the building engine,      *)
(* logicStore the loading one.                                             *)

ChunkLists == UNION { [1..n -> 1..MaxText] : n \in 0..MaxChunks }

InitRoundTrip ==
    /\ \E chunks \in ChunkLists, query \in 1..MaxText, k \in 1..MaxK :
          rt = [pc |-> "start", chunks |-> chunks, query |-> query, k |-> k,
                original |-> <<>>, loaded |-> <<>>]
    /\ disk = None /\ sessionStore = None /\ logicStore = None
    /\ web_search_enabled = FALSE
    /\ uploaded_files = <<>>
    /\ indexed_filenames = {}
    /\ index_status = "idle"
    /\ messages = <<>>
    /\ last = NoCycle
    /\ text = <<>> /\ once = <<>> /\ twice = <<>> /\ applied = 0

\* engine.index_documents(chunks): build and persist
RTBuild ==
    /\ rt.pc = "start"
    /\ LET r == index_documents(sessionStore, disk, rt.chunks)
       IN  sessionStore' = r.store /\ disk' = r.disk
    /\ rt' = [rt EXCEPT !.pc = "built"]
    /\ UNCHANGED <<logicStore, sessionVars, cleanVars>>

\* fresh_engine.load_faiss_index()
RTLoad ==
    /\ rt.pc = "built"
    /\ logicStore' = load_faiss_index(logicStore, disk).store
    /\ rt' = [rt EXCEPT !.pc = "loaded"]
    /\ UNCHANGED <<disk, sessionStore, sessionVars, cleanVars>>

\* semantic_search(query, k) on both engines
RTSearch ==
    /\ rt.pc = "loaded"
    /\ LET a == semantic_search(sessionStore, disk, rt.query, rt.k, FALSE)
           b == semantic_search(logicStore, disk, rt.query, rt.k, FALSE)
       IN  /\ rt' = [rt EXCEPT !.pc = "searched",
                               !.original = a.results, !.loaded = b.results]
           /\ sessionStore' = a.store
           /\ logicStore' = b.store
    /\ UNCHANGED <<disk, sessionVars, cleanVars>>

NextRoundTrip == RTBuild \/ RTLoad \/ RTSearch

SpecRoundTrip == InitRoundTrip /\ [][NextRoundTrip]_vars

----------------------------------------------------------------------------
(* Properties *)

\* a query cycle has run
CycleRan == last.calls # <<>>

\* the router returned a route in the last cycle
Classified == last.candidate \in Routes

CountCalls(fn, k) ==
    Cardinality({ i \in DOMAIN last.calls : last.calls[i] = Call(fn, k) })

Called(fn) == \E i \in DOMAIN last.calls : last.calls[i].fn = fn

\* the route the bundle is to carry: the router's, overridden when web is off
Effective == IF last.web_enabled THEN last.candidate ELSE "internal"

\* C1: gate invariant.  Whatever route the router returned, a gather with
\* web_enabled = false returns a bundle whose web evidence is empty, and the
\* web search provider is not called during it.
GateInvariant ==
    (CycleRan /\ Classified /\ ~last.web_enabled) =>
        /\ last.context # None
        /\ last.context.web = <<>>
        /\ ~Called("execute_web_search")

GateWitness ==
    /\ CycleRan /\ ~last.web_enabled /\ last.candidate = "web"
    /\ last.context # None /\ last.context.web = <<>>

\* C2: effective route.  The returned bundle carries route internal when
\* web_enabled is false, and the router's route unchanged when it is true.
EffectiveRoute ==
    (CycleRan /\ Classified /\ last.context # None) =>
        /\ ~last.web_enabled => last.context.route = "internal"
        /\ last.web_enabled => last.context.route = last.candidate

EffectiveRouteWitness ==
    /\ CycleRan /\ last.web_enabled /\ last.candidate = "web"
    /\ last.context # None /\ last.context.route = "web"

\* C3: partial-failure isolation.  When the web search call raises during a
\* gather on a web or hybrid route, gather still returns a bundle, with the
\* document evidence when the route is hybrid and an empty web list, and no
\* exception leaves gather.
PartialFailureIsolation ==
    (CycleRan /\ "execute_web_search" \in last.failed) =>
        /\ last.raised # "execute_web_search"
        /\ last.context # None
        /\ last.context.web = <<>>
        /\ last.candidate = "hybrid" => last.context.docs = last.docs

\* the files indexed so far include one with content: an indexing action
\* with a non-empty chunk list has completed
BuiltInSession ==
    \E f \in {NotesTxt, BlankPdf} : f.docs # <<>> /\ f.name \in indexed_filenames

\* a step of the chat input handler: only it appends to the history
ChatStep == messages' # messages

\* C4: once an indexing action with a non-empty chunk list has completed,
\* the document search of every later query cycle runs on the newly built
\* index, not on one built or loaded before it.
SearchesNewIndex ==
    [][(ChatStep /\ BuiltInSession /\ last'.searched # None)
          => last'.searched = sessionStore]_vars

\* C5: a search with no index in memory first attempts a load from the
\* persisted path; a failed load gives an empty result, a successful one is
\* followed by a search of the loaded index; and no search raises, a failed
\* similarity search giving an empty result.
SearchLoadsOnDemand ==
    [][(ChatStep /\ CountCalls("semantic_search", DocK)' = 1) =>
          /\ last'.raised # "semantic_search"
          /\ "similarity_search" \in last'.failed => last'.docs = <<>>
          /\ logicStore = None =>
                /\ Called("load_faiss_index")'
                /\ disk = None =>
                      /\ last'.docs = <<>>
                      /\ ~Called("similarity_search")'
                      /\ logicStore' = None
                /\ disk # None =>
                      /\ last'.searched = load_local(disk, MODEL_NAME).val
                      /\ logicStore' = last'.searched
                      /\ "similarity_search" \notin last'.failed =>
                            last'.docs = similarity_search(last'.searched,
                                            last'.query, DocK, FALSE).val
          /\ logicStore # None =>
                /\ ~Called("load_faiss_index")'
                /\ last'.searched = logicStore]_vars

SearchLoadsOnDemandWitness ==
    /\ Called("load_faiss_index") /\ Called("similarity_search")
    /\ last.searched # None /\ last.docs # <<>>

\* C6: building an index with an empty chunk list fails with EmptyInputError
\* instead of silently doing nothing.
EmptyBuildRejected ==
    [][(IndexDocuments /\ uploaded_files # <<>>
           /\ process_files(uploaded_files) = <<>>)
          => index_status' = "EmptyInputError"]_vars

CleanIdempotent ==
    applied = 2 => twice = once

\* C9: a failure of the generation model call does not crash the query
\* cycle: it ends with a "could not generate an answer" result, not with a
\* propagated exception.
GenerationFailureShown ==
    (CycleRan /\ "generate_hybrid_answer" \in last.failed) =>
        /\ last.raised = "none"
        /\ last.shown = "could not generate an answer"

\* C10: evidence selection by route.  gather calls the document search
\* (k=5) exactly when the effective route is internal or hybrid and the web
\* search (k=3) exactly when web_enabled and the effective route is web or
\* hybrid, each at most once; a list whose search was not called is empty in
\* the returned bundle.
EvidenceSelection ==
    (CycleRan /\ Classified) =>
        /\ CountCalls("semantic_search", DocK) =
              (IF Effective \in {"internal", "hybrid"} THEN 1 ELSE 0)
        /\ Called("semantic_search") => CountCalls("semantic_search", DocK) = 1
        /\ CountCalls("execute_web_search", WebK) =
              (IF last.web_enabled /\ Effective \in {"web", "hybrid"} THEN 1 ELSE 0)
        /\ Called("execute_web_search") => CountCalls("execute_web_search", WebK) = 1
        /\ last.context # None =>
              /\ ~Called("semantic_search") => last.context.docs = <<>>
              /\ ~Called("execute_web_search") => last.context.web = <<>>

EvidenceSelectionWitness ==
    /\ CycleRan /\ last.web_enabled /\ last.candidate = "hybrid"
    /\ CountCalls("semantic_search", DocK) = 1
    /\ CountCalls("execute_web_search", WebK) = 1
    /\ last.context # None
    /\ last.context.docs # <<>> /\ last.context.web # <<>>

====
